---------------------------- MODULE Spec2Model ----------------------------
(***************************************************************************)
(* Stepper motor velocity/direction controller (Stepper library, C        *)
(* version).  The model follows the source statement by statement.        *)
(*                                                                         *)
(* Numbers.  The source computes velocities and accelerations in float.   *)
(* Here a velocity is an integer count of 1/VelScale m/s and an            *)
(* acceleration an integer count of 1/VelScale m/s^2; the inputs are      *)
(* chosen so that every quotient the code computes is exact, and the      *)
(* float -> uint32_t conversion of a frequency is the truncating          *)
(* division by VelScale.  A uint32_t is kept as its two's-complement      *)
(* reading, so -1 stands for 0xFFFFFFFF; the PWM load register is 16 bits *)
(* wide.                                                                  *)
(***************************************************************************)
EXTENDS Integers, FiniteSets, Sequences, TLC

\* ------------------------------------------------------------------------
\* Program constants
\* ------------------------------------------------------------------------

\* SysCtlClockGet(): 200 MHz PLL / 2.5
SysClock == 80000000

\* _SetPwmFreq: above this frequency the undivided PWM clock is selected
FastThreshold == 3000

\* _SetPwmFreq: below this frequency the PWM clock divided by 64 is selected
SlowThreshold == 2000

\* _GetPwmClock: ClockShifts of SYSCTL_PWMDIV_64
ShiftDiv64 == 6

\* _GetPwmClock: ClockShifts of SYSCTL_PWMDIV_1
ShiftDiv1 == 0

\* _SetPwmFreq: the dead zone is PwmClock >> 16
CounterBits == 16

\* INT32_MAX
MaxInt32 == 2147483647

\* ------------------------------------------------------------------------
\* Units and inputs
\* ------------------------------------------------------------------------

\* Velocity resolution of the model: a velocity v stands for v/VelScale m/s
VelScale == 2000

\* Largest encoder sample fed to Stepper_CheckForStall
MaxEncoder == 1

\* stepper_params_t as handed to Stepper_Init (fields "SET INTERNALLY" are 0).
\* The first configuration reaches VelMax*Kv = 4000 Hz (> FastThreshold), the
\* second VelMax*Kv = 2500 Hz.
Configs ==
    { [VelMax |-> 8000, AccMax |-> 40000, Kv |-> 1000, VelUpdateFrequency |-> 10,
       VelMin |-> 0, PwmDz |-> 0, PwmPeriod |-> 0, PwmClock |-> 0],
      [VelMax |-> 5000, AccMax |-> 40000, Kv |-> 1000, VelUpdateFrequency |-> 10,
       VelMin |-> 0, PwmDz |-> 0, PwmPeriod |-> 0, PwmClock |-> 0] }

\* FinalVelocity arguments of Stepper_Move: 0, 0.5 Hz, -19.5 Hz, -4000 Hz and
\* 5000 Hz (above every VelMax)
Velocities == {0, 1, -39, -8000, 10000}

\* Acceleration arguments of Stepper_Move: -1 m/s^2 (instant), 0, and one
\* above AccMax (saturated to 2000 Hz per tick)
Accelerations == {-2000, 0, 50000}

\* Outcomes of an unsigned division by zero: the quotient 0 of the UDIV
\* instruction, or a trapped fault
DivZeroOutcomes == {"zero", "trap"}

\* ------------------------------------------------------------------------
\* Arithmetic helpers
\* ------------------------------------------------------------------------

\* Aux_FastFabs
Aux_FastFabs(x) == IF x < 0 THEN -x ELSE x

\* x >> n on uint32_t
RECURSIVE ShiftRight(_, _)
ShiftRight(x, n) ==
    IF x >= 0 THEN x \div (2 ^ n)
    ELSE ShiftRight((((x + MaxInt32) + 1) \div 2) + (MaxInt32 \div 2) + 1, n - 1)

\* float * float product of a velocity and Kv, converted to uint32_t
ToFreq(kv, vel) == (kv * Aux_FastFabs(vel)) \div VelScale

\* sign bit of a float (zero results of the code's arithmetic are +0.0)
SignBit(x) == x < 0

\* ------------------------------------------------------------------------
\* State
\* ------------------------------------------------------------------------

VARIABLES
    Status,             \* _Status (stepper_status_t)
    Params,             \* _Config.Params (stepper_params_t)
    DeltaVel,           \* _DeltaVel
    Hw,                 \* pins, PWM generator, PWM clock divider and ramp timer
    Lim,                \* levels of the two limit-switch inputs
    LastEncoderValue,   \* static local of Stepper_CheckForStall
    lastArg,            \* <<e>> after a call Stepper_CheckForStall(e), the latest
                        \* one; <<>> before the first call
    Btn,                \* the Button object, its pin and the time of its scans
    Rgb,                \* the private variables of the RGB driver
    pc,                 \* the foreground call in progress and the statement it is at
    fault,              \* TRUE once a division by zero has trapped
    flip,               \* TRUE iff the operation changed the direction pin while
                        \* the pulse train of the old direction reached the motor
    op,                 \* the operation that produced this state, its arguments
                        \* (for Stop, v = 1 iff the operation before it was Stop)
    prev,               \* Enabled, Dir and CurrentVel of _Status before that operation
    ret                 \* value returned by that operation

vars == <<Status, Params, DeltaVel, Hw, Lim, LastEncoderValue, lastArg, Btn, Rgb, pc,
          fault, flip, op, prev, ret>>

\* stepper_status_t_default
stepper_status_t_default ==
    [Enabled |-> FALSE, Dir |-> FALSE, TargetVel |-> 0, CurrentVel |-> 0,
     CurrentAcc |-> 0, PwmFrequency |-> 0]

\* Registers after reset: enable and direction pins low, PWM clock undivided,
\* generator and ramp timer off, load and compare registers 0
HwReset ==
    [EnPin |-> FALSE, DirPin |-> FALSE, PwmDiv |-> ShiftDiv1, GenEnabled |-> FALSE,
     OutState |-> FALSE, Load |-> 0, Width |-> 0, TimerEnabled |-> FALSE]

\* No direction change under a running pulse train recorded
NoFlip == FALSE

\* The pulse train reaches the motor: generator running, output pin on,
\* driver enable line active (low)
PulsesOut(hw) == hw.GenEnabled /\ hw.OutState /\ ~hw.EnPin

\* The controller's private data and outputs, threaded through the functions
Machine == [St |-> Status, Pa |-> Params, Dv |-> DeltaVel, Hw |-> Hw,
            fault |-> fault, flip |-> NoFlip]

\* ------------------------------------------------------------------------
\* "Private" functions
\* ------------------------------------------------------------------------

\* _GetPwmClock: SysCtlClockGet() >> ClockShifts
GetPwmClock(hw) == ShiftRight(SysClock, hw.PwmDiv)

\* PWMGenPeriodGet, down-count mode: LOAD + 1
PWMGenPeriodGet(hw) == hw.Load + 1

\* _SetDirection
SetDirection(m, NewDirection) ==
    [m EXCEPT !.St.Dir = NewDirection,
              !.Hw.DirPin = NewDirection,
              !.flip = IF NewDirection # m.Hw.DirPin THEN PulsesOut(m.Hw) ELSE m.flip]

\* _SetEnable: the enable pin is active low
SetEnable(m, NewEnable) ==
    [m EXCEPT !.St.Enabled = NewEnable, !.Hw.EnPin = ~NewEnable]

\* _StartPwm
StartPwm(m) == [m EXCEPT !.Hw.OutState = TRUE, !.Hw.GenEnabled = TRUE]

\* _StopPwm that leaves the tracked frequency as it is
StopPwm_KeepsFrequency(m) ==
    [m EXCEPT !.Hw.GenEnabled = FALSE, !.Hw.OutState = FALSE]

\* _StopPwm
StopPwm(m) ==
    [m EXCEPT !.Hw.GenEnabled = FALSE, !.Hw.OutState = FALSE, !.St.PwmFrequency = 0]

\* _SetPwmFreq, clock selection with one threshold for both directions
SetPwmClock_NoHysteresis(m, NewFreq) ==
    LET fast == (NewFreq > FastThreshold) /\ (m.Pa.PwmClock # SysClock)
        slow == ~fast /\ (NewFreq <= FastThreshold) /\ (m.Pa.PwmClock = SysClock)
        hw   == IF fast THEN [m.Hw EXCEPT !.PwmDiv = ShiftDiv1]
                ELSE IF slow THEN [m.Hw EXCEPT !.PwmDiv = ShiftDiv64]
                ELSE m.Hw
        dz   == ShiftRight(GetPwmClock(hw), CounterBits) + 1
    IN  IF fast \/ slow
        THEN [m EXCEPT !.Hw = hw,
                       !.Pa.PwmClock = GetPwmClock(hw),
                       !.Pa.PwmDz = dz,
                       !.Pa.VelMin = (dz * VelScale) \div m.Pa.Kv]
        ELSE m

\* _SetPwmFreq, clock selection part
SetPwmClock(m, NewFreq) ==
    LET fast == (NewFreq > FastThreshold) /\ (m.Pa.PwmClock # SysClock)
        slow == ~fast /\ (NewFreq < SlowThreshold) /\ (m.Pa.PwmClock = SysClock)
        hw   == IF fast THEN [m.Hw EXCEPT !.PwmDiv = ShiftDiv1]
                ELSE IF slow THEN [m.Hw EXCEPT !.PwmDiv = ShiftDiv64]
                ELSE m.Hw
        dz   == ShiftRight(GetPwmClock(hw), CounterBits) + 1
    IN  IF fast \/ slow
        THEN [m EXCEPT !.Hw = hw,
                       !.Pa.PwmClock = GetPwmClock(hw),
                       !.Pa.PwmDz = dz,
                       !.Pa.VelMin = (dz * VelScale) \div m.Pa.Kv]
        ELSE m

\* _SetPwmFreq, period part: PwmPeriod and the generator registers
SetPwmPeriod(m, quotient) ==
    LET period == quotient - 1
    IN  IF period # PWMGenPeriodGet(m.Hw)
        THEN [m EXCEPT !.Pa.PwmPeriod = period,
                       !.Hw.Load = (period - 1) % (2 ^ CounterBits),
                       !.Hw.Width = ShiftRight(period, 1)]
        ELSE [m EXCEPT !.Pa.PwmPeriod = period]

\* _SetPwmFreq that resets the status flag inside the dead zone
SetPwmFreq_DeadZoneDisables(m, NewFreq, ub) ==
    LET m1 == SetPwmClock(m, NewFreq)
        m2 == [m1 EXCEPT !.St.PwmFrequency = NewFreq]
        m3 == IF m2.St.Enabled THEN [m2 EXCEPT !.Hw.EnPin = FALSE] ELSE m2
    IN  IF (NewFreq < m2.Pa.PwmDz) /\ m2.St.Enabled
        THEN SetEnable(m2, FALSE)
        ELSE IF NewFreq = 0
             THEN IF ub = "trap"
                  THEN [m3 EXCEPT !.fault = TRUE]
                  ELSE SetPwmPeriod(m3, 0)
             ELSE SetPwmPeriod(m3, m3.Pa.PwmClock \div NewFreq)

\* _SetPwmFreq
SetPwmFreq(m, NewFreq, ub) ==
    LET m1 == SetPwmClock(m, NewFreq)
        m2 == [m1 EXCEPT !.St.PwmFrequency = NewFreq]
        m3 == IF m2.St.Enabled THEN [m2 EXCEPT !.Hw.EnPin = FALSE] ELSE m2
    IN  IF (NewFreq < m2.Pa.PwmDz) /\ m2.St.Enabled
        THEN [m2 EXCEPT !.Hw.EnPin = TRUE]
        ELSE IF NewFreq = 0
             THEN IF ub = "trap"
                  THEN [m3 EXCEPT !.fault = TRUE]
                  ELSE SetPwmPeriod(m3, 0)
             ELSE SetPwmPeriod(m3, m3.Pa.PwmClock \div NewFreq)

\* Stepper_Stop that toggles the enable state instead of clearing it
Stepper_Stop_Toggle(m) ==
    LET m1 == StopPwm(SetEnable(m, ~m.St.Enabled))
    IN  [m1 EXCEPT !.St.CurrentVel = 0, !.St.CurrentAcc = 0]

\* Stepper_Stop that puts the whole status back to its defaults
Stepper_Stop_Defaults(m) ==
    LET m1 == StopPwm(SetEnable(SetDirection(m, FALSE), FALSE))
    IN  [m1 EXCEPT !.St.CurrentVel = 0, !.St.CurrentAcc = 0, !.St.TargetVel = 0]

\* Stepper_Stop that leaves the acceleration of the cancelled ramp
Stepper_Stop_KeepsAcc(m) ==
    LET m1 == StopPwm(SetEnable(m, FALSE))
    IN  [m1 EXCEPT !.St.CurrentVel = 0]

\* Stepper_Stop
Stepper_Stop(m) ==
    LET m1 == StopPwm(SetEnable(m, FALSE))
    IN  [m1 EXCEPT !.St.CurrentVel = 0, !.St.CurrentAcc = 0]

\* _SetVel
SetVel(m, NewVel, ub) ==
    IF NewVel = 0
    THEN Stepper_Stop(m)
    ELSE LET cv == IF Aux_FastFabs(NewVel - m.St.TargetVel) * m.Pa.Kv < VelScale
                   THEN m.St.TargetVel
                   ELSE NewVel
         IN  SetPwmFreq([m EXCEPT !.St.CurrentVel = cv], ToFreq(m.Pa.Kv, NewVel), ub)

\* _CanMove that reads the end-limit input only
CanMove_EndOnly(lim, Direction) == ~(lim.End /\ Direction)

\* _CanMove
CanMove(lim, Direction) ==
    ~((lim.Start /\ ~Direction) \/ (lim.End /\ Direction))

\* _CalculateVel without the final-tick arrival at the target
NewVelOf_NoArrival(m) ==
    IF m.St.CurrentAcc < 0 THEN m.St.TargetVel
    ELSE IF m.St.CurrentAcc > 0
    THEN IF ~m.St.Enabled
         THEN (IF m.St.TargetVel < 0 THEN -m.Pa.VelMin ELSE m.Pa.VelMin)
         ELSE IF m.St.CurrentVel < m.St.TargetVel THEN m.St.CurrentVel + m.Dv
         ELSE IF m.St.CurrentVel > m.St.TargetVel THEN m.St.CurrentVel - m.Dv
         ELSE m.St.CurrentVel
    ELSE m.St.CurrentVel

\* _CalculateVel that treats a negative acceleration as no acceleration
NewVelOf_NoInstant(m) ==
    IF m.St.CurrentAcc > 0
    THEN IF ~m.St.Enabled
         THEN (IF m.St.TargetVel < 0 THEN -m.Pa.VelMin ELSE m.Pa.VelMin)
         ELSE IF Aux_FastFabs(m.St.CurrentVel - m.St.TargetVel) < m.Dv
         THEN m.St.TargetVel
         ELSE IF m.St.CurrentVel < m.St.TargetVel THEN m.St.CurrentVel + m.Dv
         ELSE IF m.St.CurrentVel > m.St.TargetVel THEN m.St.CurrentVel - m.Dv
         ELSE m.St.CurrentVel
    ELSE m.St.CurrentVel

\* _CalculateVel, the candidate NewVel
NewVelOf(m) ==
    IF m.St.CurrentAcc < 0 THEN m.St.TargetVel
    ELSE IF m.St.CurrentAcc > 0
    THEN IF ~m.St.Enabled
         THEN (IF m.St.TargetVel < 0 THEN -m.Pa.VelMin ELSE m.Pa.VelMin)
         ELSE IF Aux_FastFabs(m.St.CurrentVel - m.St.TargetVel) < m.Dv
         THEN m.St.TargetVel
         ELSE IF m.St.CurrentVel < m.St.TargetVel THEN m.St.CurrentVel + m.Dv
         ELSE IF m.St.CurrentVel > m.St.TargetVel THEN m.St.CurrentVel - m.Dv
         ELSE m.St.CurrentVel
    ELSE m.St.CurrentVel

\* _CalculateVel, the sign bit of NewVel: -VelMin is -0.0 when VelMin is 0
NewVelSign(m) ==
    IF (m.St.CurrentAcc > 0) /\ ~m.St.Enabled
    THEN m.St.TargetVel < 0
    ELSE SignBit(NewVelOf(m))

\* _CalculateVel that leaves the ramp timer running at the target
CalculateVel_KeepsTimer(m, ub) ==
    IF m.St.CurrentVel = m.St.TargetVel
    THEN m
    ELSE LET redefine == (NewVelSign(m) # SignBit(m.St.CurrentVel))
                         \/ ~m.St.Enabled \/ (m.St.CurrentAcc < 0)
             m1 == IF redefine THEN SetDirection(m, ~(m.St.TargetVel < 0)) ELSE m
         IN  SetVel(m1, NewVelOf(m), ub)

\* _CalculateVel
CalculateVel(m, ub) ==
    IF m.St.CurrentVel = m.St.TargetVel
    THEN [m EXCEPT !.Hw.TimerEnabled = FALSE]
    ELSE LET redefine == (NewVelSign(m) # SignBit(m.St.CurrentVel))
                         \/ ~m.St.Enabled \/ (m.St.CurrentAcc < 0)
             m1 == IF redefine THEN SetDirection(m, ~(m.St.TargetVel < 0)) ELSE m
         IN  SetVel(m1, NewVelOf(m), ub)

\* _IsrLimHandler that stops the enabled axis whatever its direction
IsrLimHandler_AnyDir(m, StatusStart, StatusEnd) ==
    LET m1 == IF StatusStart = {"Start"}
              THEN (IF m.St.Enabled THEN Stepper_Stop(m) ELSE m)
              ELSE m
    IN  IF StatusEnd = {"End"}
        THEN (IF m1.St.Enabled THEN Stepper_Stop(m1) ELSE m1)
        ELSE m1

\* _IsrLimHandler whose end-limit branch tests the backward direction
IsrLimHandler_SameDir(m, StatusStart, StatusEnd) ==
    LET m1 == IF StatusStart = {"Start"}
              THEN (IF m.St.Enabled /\ (m.St.Dir = FALSE) THEN Stepper_Stop(m) ELSE m)
              ELSE m
    IN  IF StatusEnd = {"End"}
        THEN (IF m1.St.Enabled /\ (m1.St.Dir = FALSE) THEN Stepper_Stop(m1) ELSE m1)
        ELSE m1

\* _IsrLimHandler.  StatusStart and StatusEnd are the masked interrupt
\* status of the port of each limit pin, as the set of pending limit pins
IsrLimHandler(m, StatusStart, StatusEnd) ==
    LET m1 == IF StatusStart = {"Start"}
              THEN (IF m.St.Enabled /\ (m.St.Dir = FALSE) THEN Stepper_Stop(m) ELSE m)
              ELSE m
    IN  IF StatusEnd = {"End"}
        THEN (IF m1.St.Enabled /\ (m1.St.Dir = TRUE) THEN Stepper_Stop(m1) ELSE m1)
        ELSE m1

\* _IsrLimHandler, the limit interrupts one run of it clears (GPIOIntClear)
IsrLimCleared(StatusStart, StatusEnd) ==
    (IF StatusStart = {"Start"} THEN {"Start"} ELSE {})
    \cup (IF StatusEnd = {"End"} THEN {"End"} ELSE {})

\* _IsrTimerHandler
IsrTimerHandler(m, ub) == CalculateVel(m, ub)

\* _InitHardware: initial pin states and initial PWM clock; the ramp timer is
\* configured but not started
InitHardware(m) ==
    LET m1 == SetEnable(SetDirection(m, m.St.Dir), m.St.Enabled)
    IN  SetPwmFreq(m1, ToFreq(m1.Pa.Kv, m1.Pa.VelMax), "zero")

\* ------------------------------------------------------------------------
\* Public functions
\* ------------------------------------------------------------------------

\* Stepper_Init
Stepper_Init(Config) ==
    InitHardware([St |-> stepper_status_t_default, Pa |-> Config, Dv |-> 0,
                  Hw |-> HwReset, fault |-> FALSE, flip |-> NoFlip])

\* Stepper_Move, saturation of the arguments and the new targets
MoveTargets(m, FinalVelocity, Acceleration) ==
    LET VelocitySign == IF FinalVelocity > 0 THEN 1 ELSE -1
        VelocityAbs  == FinalVelocity * VelocitySign
        VelSat       == IF VelocityAbs > m.Pa.VelMax THEN m.Pa.VelMax ELSE VelocityAbs
        AccSat       == IF Acceleration > m.Pa.AccMax THEN m.Pa.AccMax ELSE Acceleration
    IN  [m EXCEPT !.St.TargetVel = VelSat * VelocitySign,
                  !.St.CurrentAcc = AccSat,
                  !.Dv = AccSat \div m.Pa.VelUpdateFrequency]

\* Stepper_Move that starts from the stopped state without asking _CanMove
MoveStart_IgnoresLimits(m, lim, ub) ==
    LET m1 == CalculateVel(m, ub)
    IN  IF m1.fault THEN m1 ELSE StartPwm(SetEnable(m1, TRUE))

\* Stepper_Move, start from the stopped state
MoveStart(m, lim, ub) ==
    LET m1 == CalculateVel(m, ub)
    IN  IF m1.fault THEN m1
        ELSE IF CanMove(lim, m1.St.Dir) THEN StartPwm(SetEnable(m1, TRUE))
        ELSE Stepper_Stop(m1)

\* Stepper_Move
Stepper_Move(m, lim, FinalVelocity, Acceleration, ub) ==
    LET m1 == MoveTargets(m, FinalVelocity, Acceleration)
        m2 == IF ~m1.St.Enabled /\ (m1.St.TargetVel # 0) THEN MoveStart(m1, lim, ub) ELSE m1
    IN  IF m2.fault THEN m2
        ELSE IF m2.St.CurrentVel # m2.St.TargetVel
        THEN [m2 EXCEPT !.Hw.TimerEnabled = TRUE]
        ELSE m2

\* Stepper_CheckForStall, the returned flag
StallFlag(st, last, EncoderValue) ==
    st.Enabled /\ (last = EncoderValue) /\ (st.CurrentVel # 0)

\* Stepper_CheckForStall, the remembered sample
StallSample(st, last, EncoderValue) == IF st.Enabled THEN EncoderValue ELSE last

\* ------------------------------------------------------------------------
\* Button (Button::ScanEvent).  Times are in the unit of the button
\* parameters: ScanEvent runs every Interval units, the pin may change at any
\* unit.
\* ------------------------------------------------------------------------

\* button_params_t of the scanned button
ButtonParams == [Interval |-> 2, DeadTime |-> 3, Window |-> 12, LongClickTimeout |-> 16]

\* Longest time the button is kept pressed
MaxHold == 56

\* Longest time the button is left released
MaxQuiet == 24

\* Largest number of presses in one sequence
MaxClicks == 3

\* button_scan_t_default
button_scan_t_default ==
    [TimeCounter |-> 0, ShortCounter |-> 0, LongCounter |-> 0, State |-> "BUTTON_INIT"]

\* Button::_ResetVariables that leaves the short click counter
ResetVariables_KeepsShort(scan) ==
    [scan EXCEPT !.TimeCounter = 0, !.LongCounter = 0]

\* Button::_ResetVariables
ResetVariables(scan) ==
    [scan EXCEPT !.TimeCounter = 0, !.ShortCounter = 0, !.LongCounter = 0]

\* Button::_Pressed of an active high button
Pressed_ActiveHigh(pin) == pin = 1

\* Button::_Pressed: the button is active low
Pressed(pin) == pin = 0

\* Button::ScanEvent.  The result is the new _Scan, the returned flag and the
\* caller's EventData (left as it was when no event is reported)
ScanEvent(scan, pa, ButtonPressed, EventData) ==
    LET s0 == [scan EXCEPT !.TimeCounter = (scan.TimeCounter + pa.Interval) % 65536]
        none(s) == [Scan |-> s, EventFlag |-> FALSE, EventData |-> EventData]
        tick == LET c == (s0.LongCounter + 1) % 256
                IN  [Scan |-> [s0 EXCEPT !.LongCounter = c, !.State = "BUTTON_HELD",
                                         !.TimeCounter = 0],
                     EventFlag |-> TRUE,
                     EventData |-> [EventCode |-> "BUTTON_LONG_CLICK_TICK", Counter |-> c]]
    IN  CASE s0.State = "BUTTON_INIT" ->
                IF ButtonPressed
                THEN none(ResetVariables([s0 EXCEPT !.State = "BUTTON_DOWN"]))
                ELSE none(s0)
          [] s0.State = "BUTTON_DOWN" ->
                IF ~ButtonPressed /\ (s0.TimeCounter > pa.DeadTime)
                THEN none([s0 EXCEPT !.State = "BUTTON_UP", !.TimeCounter = 0])
                ELSE IF ButtonPressed /\ (s0.TimeCounter > pa.LongClickTimeout)
                THEN tick
                ELSE none(s0)
          [] s0.State = "BUTTON_UP" ->
                IF s0.TimeCounter >= pa.DeadTime
                THEN none([s0 EXCEPT !.ShortCounter = (s0.ShortCounter + 1) % 256,
                                     !.State = "BUTTON_COUNT"])
                ELSE none(s0)
          [] s0.State = "BUTTON_COUNT" ->
                IF ButtonPressed
                THEN none([s0 EXCEPT !.State = "BUTTON_DOWN", !.TimeCounter = 0])
                ELSE IF s0.TimeCounter > pa.Window
                THEN [Scan |-> ResetVariables([s0 EXCEPT !.State = "BUTTON_INIT"]),
                      EventFlag |-> TRUE,
                      EventData |-> [EventCode |-> "BUTTON_SHORT_CLICK",
                                     Counter |-> s0.ShortCounter]]
                ELSE none(s0)
          [] s0.State = "BUTTON_HELD" ->
                IF ~ButtonPressed
                THEN [Scan |-> ResetVariables([s0 EXCEPT !.State = "BUTTON_INIT"]),
                      EventFlag |-> TRUE,
                      EventData |-> [EventCode |-> "BUTTON_LONG_CLICK",
                                     Counter |-> s0.LongCounter]]
                ELSE IF ButtonPressed /\ (s0.TimeCounter > pa.LongClickTimeout)
                THEN tick
                ELSE none(s0)
          [] OTHER -> none(ResetVariables([s0 EXCEPT !.State = "BUTTON_INIT"]))

\* Time for which Button::ScanEvent may not see the pin after a change: the
\* dead time and two scan intervals
MinGap == ButtonParams.DeadTime + 2 * ButtonParams.Interval

\* The Button object after its constructor and Init, the pin pulled up.
\* Pin, phase and the fields after them describe the button and the caller:
\*   phase  units since the last scan
\*   last   what happened last: "edge", "wait" or "scan"
\*   edge   units since the pin last changed
\*   since  while pressed, units since the press began or the last long-click tick
\*   n      presses released in the present sequence of presses
\*   ticks  long-click ticks reported during the present hold
\*   clean  every press so far was held longer than DeadTime and shorter than
\*          LongClickTimeout and began within Window of the release before it
\*   spaced every press so far was held for more than MinGap and began more
\*          than MinGap after the release before it
\*   bounce every press of the present sequence lasted no longer than DeadTime
ButtonInit ==
    [Scan |-> button_scan_t_default, Params |-> ButtonParams, Pin |-> 1,
     EventFlag |-> FALSE, EventData |-> [EventCode |-> "NONE", Counter |-> 0],
     phase |-> 0, last |-> "wait", edge |-> 0, since |-> 0, n |-> 0, ticks |-> 0,
     clean |-> TRUE, spaced |-> TRUE, bounce |-> TRUE]

\* ------------------------------------------------------------------------
\* Specification: every operation runs to completion
\* ------------------------------------------------------------------------

Snapshot == [Enabled |-> Status.Enabled, Dir |-> Status.Dir,
             CurrentVel |-> Status.CurrentVel]

\* ------------------------------------------------------------------------
\* RGB LED (Rgb_TivaC)
\* ------------------------------------------------------------------------

\* PWM frequencies of the configurations examined (rgb_params_t.PwmFrequency, Hz)
PwmFrequencies == {50, 100, 500, 1000, 2000}

\* Fade times passed to Rgb_SetColor (ms, uint16_t)
FadeTimes == {0, 1, 10, 100, 500, 1000, 2000, 65535}

\* Custom RGB colors
RGB_OFF == [R |-> 0, G |-> 0, B |-> 0]
RGB_RED == [R |-> 255, G |-> 0, B |-> 0]
RGB_BLUE == [R |-> 0, G |-> 0, B |-> 255]
RGB_WHITE == [R |-> 255, G |-> 255, B |-> 255]
Colors == {RGB_OFF, RGB_RED, RGB_BLUE, RGB_WHITE}

\* The private variables as the program starts (zero-initialised statics);
\* FadeTime is the argument of the last Rgb_SetColor, -1 before Rgb_Init
RgbStatic ==
    [PwmFrequency |-> 0, CurrentColor |-> RGB_OFF, NewColor |-> RGB_OFF, FadeSteps |-> 0,
     StepCounter |-> 0, PwmPeriod |-> 0, TimerEnabled |-> FALSE, FadeTime |-> -1,
     IsFading |-> FALSE, StepSkipR |-> 0, StepSkipG |-> 0, StepSkipB |-> 0,
     fault |-> FALSE]

\* Rgb _SetPwmFrequency: the period in PWM clock ticks, stored in a uint16_t
Rgb_SetPwmFrequency(r, hw, Frequency) ==
    [r EXCEPT !.PwmPeriod = ((GetPwmClock(hw) \div Frequency) - 1) % 65536]

\* Rgb_SetColor
Rgb_SetColor(r, Color, FadeTime) ==
    LET steps == ((IF FadeTime # 0 THEN 1 ELSE 0) * (FadeTime * 1000)) \div r.PwmFrequency
    IN  [r EXCEPT !.StepCounter = 0, !.NewColor = Color,
                  !.FadeSteps = IF steps > r.PwmFrequency THEN r.PwmFrequency ELSE steps,
                  !.TimerEnabled = TRUE, !.FadeTime = FadeTime]

\* Rgb_Init: copies the configuration, _InitHardware sets the PWM period and
\* ends with Rgb_SetColor(_NewColor, 0)
Rgb_Init(r, hw, PwmFrequency) ==
    LET c == [r EXCEPT !.PwmFrequency = PwmFrequency]
        h == Rgb_SetPwmFrequency(c, hw, PwmFrequency)
    IN  Rgb_SetColor(h, h.NewColor, 0)

\* _ColorsAreEqual
ColorsAreEqual(Color1, Color2) ==
    Color1.R = Color2.R /\ Color1.G = Color2.G /\ Color1.B = Color2.B

\* _CalculateStepSkip: FadeSteps / Diff rounded to the nearest integer, the
\* arguments taken as uint16_t
CalculateStepSkip(NewValue, CurrentValue, FadeSteps) ==
    LET Diff == Aux_FastFabs(NewValue - CurrentValue)
        Steps == FadeSteps % 65536
    IN  IF Diff = 0 THEN 0
        ELSE IF Diff >= Steps THEN 1
        ELSE (2 * Steps + Diff) \div (2 * Diff)

\* StepCounter % StepSkip == 0.  With a zero divisor the division delivers 0
\* and the remainder is the counter itself, unless the division traps
SkipElapsed(StepCounter, StepSkip) ==
    IF StepSkip = 0 THEN StepCounter = 0 ELSE StepCounter % StepSkip = 0

\* _CurrentColor.X += (_NewColor.X > _CurrentColor.X ? 1 : -1), in a uint8_t
FadeComponent(Current, New) ==
    (IF New > Current THEN Current + 1 ELSE Current - 1) % 256

\* _FadeService, run by the timer interrupt; the duty registers it loads from
\* CurrentColor are not part of the model.  A remainder with a zero divisor
\* either traps (fault) or leaves the component as it is
FadeService(r, hw, ub) ==
    LET p == Rgb_SetPwmFrequency(r, hw, r.PwmFrequency)
    IN  IF p.FadeSteps # 0 /\ ~ColorsAreEqual(p.CurrentColor, p.NewColor)
        THEN LET s == IF ~p.IsFading
                      THEN [p EXCEPT
                              !.StepCounter = 0, !.IsFading = TRUE,
                              !.StepSkipR = CalculateStepSkip(p.NewColor.R, p.CurrentColor.R, p.FadeSteps),
                              !.StepSkipG = CalculateStepSkip(p.NewColor.G, p.CurrentColor.G, p.FadeSteps),
                              !.StepSkipB = CalculateStepSkip(p.NewColor.B, p.CurrentColor.B, p.FadeSteps)]
                      ELSE p
                 n == [s EXCEPT !.StepCounter = s.StepCounter + 1]
                 Stepped(skip, cur, new) ==
                     IF SkipElapsed(n.StepCounter, skip)
                     THEN FadeComponent(cur, new) ELSE cur
                 c == [n EXCEPT
                         !.CurrentColor.R = Stepped(n.StepSkipR, n.CurrentColor.R, n.NewColor.R),
                         !.CurrentColor.G = Stepped(n.StepSkipG, n.CurrentColor.G, n.NewColor.G),
                         !.CurrentColor.B = Stepped(n.StepSkipB, n.CurrentColor.B, n.NewColor.B)]
             IN  IF ub = "trap" /\ 0 \in {n.StepSkipR, n.StepSkipG, n.StepSkipB}
                 THEN [n EXCEPT !.fault = TRUE]
                 ELSE IF c.StepCounter >= c.FadeSteps
                      THEN [c EXCEPT !.CurrentColor = c.NewColor, !.IsFading = FALSE]
                      ELSE c
        ELSE [p EXCEPT !.CurrentColor = p.NewColor, !.IsFading = FALSE,
                       !.TimerEnabled = FALSE]

\* No foreground call of the stepper is in progress
Idle == [at |-> "idle"]

\* The machine m becomes the state
Becomes(m) ==
    /\ Status' = m.St
    /\ Params' = m.Pa
    /\ DeltaVel' = m.Dv
    /\ Hw' = m.Hw
    /\ fault' = m.fault
    /\ flip' = m.flip
    /\ UNCHANGED <<Btn, Rgb, pc>>

Init ==
    \E cfg \in Configs, ls \in BOOLEAN, le \in BOOLEAN :
        LET m == Stepper_Init(cfg)
        IN  /\ Status = m.St
            /\ Params = m.Pa
            /\ DeltaVel = m.Dv
            /\ Hw = m.Hw
            /\ fault = m.fault
            /\ flip = m.flip
            /\ Lim = [Start |-> ls, End |-> le]
            /\ LastEncoderValue = 0
            /\ lastArg = <<>>
            /\ Btn = ButtonInit
            /\ Rgb = RgbStatic
            /\ pc = Idle
            /\ op = [name |-> "Init", v |-> 0, a |-> 0]
            /\ prev = [Enabled |-> m.St.Enabled, Dir |-> m.St.Dir,
                       CurrentVel |-> m.St.CurrentVel]
            /\ ret = FALSE

\* Foreground call of Stepper_Move
Move ==
    \E v \in Velocities, a \in Accelerations, ub \in DivZeroOutcomes :
        LET m == Stepper_Move(Machine, Lim, v, a, ub)
        IN  /\ ~fault
            /\ Becomes(m)
            /\ ret' = m.St.Enabled
            /\ op' = [name |-> "Move", v |-> v, a |-> a]
            /\ prev' = Snapshot
            /\ UNCHANGED <<Lim, LastEncoderValue, lastArg>>

\* Foreground call of Stepper_Stop
Stop ==
    /\ ~fault
    /\ Becomes(Stepper_Stop(Machine))
    /\ ret' = FALSE
    /\ op' = [name |-> "Stop", v |-> IF op.name = "Stop" THEN 1 ELSE 0, a |-> 0]
    /\ prev' = Snapshot
    /\ UNCHANGED <<Lim, LastEncoderValue, lastArg>>

\* The ramp timer times out and its interrupt handler runs
Tick ==
    \E ub \in DivZeroOutcomes :
        /\ ~fault
        /\ Hw.TimerEnabled
        /\ Becomes(IsrTimerHandler(Machine, ub))
        /\ ret' = FALSE
        /\ op' = [name |-> "Tick", v |-> 0, a |-> 0]
        /\ prev' = Snapshot
        /\ UNCHANGED <<Lim, LastEncoderValue, lastArg>>

\* The start-limit input rises and the limit handler runs
LimStartEdge ==
    /\ ~fault
    /\ ~Lim.Start
    /\ Lim' = [Lim EXCEPT !.Start = TRUE]
    /\ Becomes(IsrLimHandler(Machine, {"Start"}, {}))
    /\ ret' = FALSE
    /\ op' = [name |-> "LimStart", v |-> 0, a |-> 0]
    /\ prev' = Snapshot
    /\ UNCHANGED <<LastEncoderValue, lastArg>>

\* The end-limit input rises and the limit handler runs
LimEndEdge ==
    /\ ~fault
    /\ ~Lim.End
    /\ Lim' = [Lim EXCEPT !.End = TRUE]
    /\ Becomes(IsrLimHandler(Machine, {}, {"End"}))
    /\ ret' = FALSE
    /\ op' = [name |-> "LimEnd", v |-> 0, a |-> 0]
    /\ prev' = Snapshot
    /\ UNCHANGED <<LastEncoderValue, lastArg>>

\* A limit input falls: no interrupt is configured for that edge
LimRelease ==
    \E which \in {"Start", "End"} :
        /\ ~fault
        /\ Lim[which]
        /\ Lim' = [Lim EXCEPT ![which] = FALSE]
        /\ Becomes(Machine)
        /\ ret' = FALSE
        /\ op' = [name |-> "LimRelease", v |-> 0, a |-> 0]
        /\ prev' = Snapshot
        /\ UNCHANGED <<LastEncoderValue, lastArg>>

\* Foreground call of Stepper_CheckForStall with a new encoder sample
CheckForStall ==
    \E e \in 0..MaxEncoder :
        /\ ~fault
        /\ ret' = StallFlag(Status, LastEncoderValue, e)
        /\ LastEncoderValue' = StallSample(Status, LastEncoderValue, e)
        /\ lastArg' = <<e>>
        /\ Becomes(Machine)
        /\ op' = [name |-> "CheckForStall", v |-> e, a |-> 0]
        /\ prev' = Snapshot
        /\ UNCHANGED Lim

\* Motion: commands, ramp ticks and limit inputs.  Stepper_CheckForStall only
\* reads the status and writes its own static sample, so the motion of the
\* axis is the same with and without calls of it.
Next ==
    \/ Move
    \/ Stop
    \/ Tick
    \/ LimStartEdge
    \/ LimEndEdge
    \/ LimRelease

Spec == Init /\ [][Next]_vars

\* Motion together with the stall detector fed by the caller
NextStall ==
    \/ Next
    \/ CheckForStall

SpecStall == Init /\ [][NextStall]_vars

\* The stepper is left alone
StepperIdle ==
    UNCHANGED <<Status, Params, DeltaVel, Hw, Lim, LastEncoderValue, lastArg, pc, fault,
                flip, op, prev, ret>>

\* The button is pressed or released (the pin changes level).  A press that
\* finds the state machine in BUTTON_INIT begins a new sequence of presses.
ButtonEdge ==
    /\ Btn.edge >= 1
    /\ LET first == Btn.Scan.State = "BUTTON_INIT"
           n     == IF first THEN 0 ELSE Btn.n
       IN  IF Btn.Pin = 1
           THEN /\ n < MaxClicks
                /\ Btn' = [Btn EXCEPT
                             !.Pin = 0, !.last = "edge", !.edge = 0, !.since = 0,
                             !.ticks = 0, !.EventFlag = FALSE, !.n = n,
                             !.bounce = first \/ Btn.bounce,
                             !.clean = first \/ (Btn.clean /\ Btn.edge <= Btn.Params.Window),
                             !.spaced = first \/ (Btn.spaced /\ Btn.edge > MinGap)]
           ELSE Btn' = [Btn EXCEPT
                          !.Pin = 1, !.last = "edge", !.edge = 0, !.since = 0,
                          !.n = Btn.n + 1, !.EventFlag = FALSE,
                          !.bounce = Btn.bounce /\ Btn.edge <= Btn.Params.DeadTime,
                          !.clean = /\ Btn.clean
                                    /\ Btn.edge > Btn.Params.DeadTime
                                    /\ Btn.edge < Btn.Params.LongClickTimeout,
                          !.spaced = Btn.spaced /\ Btn.edge > MinGap]
    /\ StepperIdle
    /\ UNCHANGED Rgb

\* The pin is pressed for less than MaxHold, or released for less than
\* MaxQuiet, and the time counter of the idle state machine is below their sum
TimeMayPass ==
    /\ Btn.edge < (IF Btn.Pin = 0 THEN MaxHold ELSE MaxQuiet)
    /\ Btn.Scan.TimeCounter < MaxHold + MaxQuiet

\* A unit of time passes and no scan is due
ButtonWait ==
    /\ TimeMayPass
    /\ Btn.phase < Btn.Params.Interval - 1
    /\ Btn' = [Btn EXCEPT !.phase = Btn.phase + 1, !.last = "wait",
                          !.edge = Btn.edge + 1,
                          !.since = IF Btn.Pin = 0 THEN Btn.since + 1 ELSE 0,
                          !.EventFlag = FALSE]
    /\ StepperIdle
    /\ UNCHANGED Rgb

\* A unit of time passes and the periodic caller runs Button::ScanEvent
ButtonScan ==
    /\ TimeMayPass
    /\ Btn.phase = Btn.Params.Interval - 1
    /\ LET r    == ScanEvent(Btn.Scan, Btn.Params, Pressed(Btn.Pin), Btn.EventData)
           tick == r.EventFlag /\ r.EventData.EventCode = "BUTTON_LONG_CLICK_TICK"
       IN  Btn' = [Btn EXCEPT !.Scan = r.Scan, !.EventFlag = r.EventFlag,
                              !.EventData = r.EventData,
                              !.phase = 0, !.last = "scan",
                              !.edge = Btn.edge + 1,
                              !.since = IF tick \/ Btn.Pin = 1 THEN 0 ELSE Btn.since + 1,
                              !.ticks = IF tick THEN Btn.ticks + 1 ELSE Btn.ticks]
    /\ StepperIdle
    /\ UNCHANGED Rgb

\* The button, its user and its periodic scan
NextButton ==
    \/ ButtonEdge
    \/ ButtonWait
    \/ ButtonScan

\* The board after start-up with the first stepper configuration, both limit
\* inputs open
InitButton == Init /\ Params.VelMax = 8000 /\ ~Lim.Start /\ ~Lim.End

SpecButton == InitButton /\ [][NextButton]_vars

\* Call of Rgb_Init, once
RgbInit ==
    /\ Rgb.FadeTime = -1
    /\ \E f \in PwmFrequencies : Rgb' = Rgb_Init(Rgb, Hw, f)
    /\ StepperIdle
    /\ UNCHANGED Btn

\* Call of Rgb_SetColor on the initialised driver
RgbSetColor ==
    /\ Rgb.FadeTime >= 0
    /\ \E c \in Colors, t \in FadeTimes : Rgb' = Rgb_SetColor(Rgb, c, t)
    /\ StepperIdle
    /\ UNCHANGED Btn

NextRgb == RgbInit \/ RgbSetColor

SpecRgb == InitButton /\ [][NextRgb]_vars

\* Timer interrupt of the RGB driver: _IsrTimerHandler runs _FadeService
RgbTimer ==
    /\ Rgb.FadeTime >= 0 /\ Rgb.TimerEnabled /\ ~Rgb.fault
    /\ \E ub \in DivZeroOutcomes : Rgb' = FadeService(Rgb, Hw, ub)
    /\ StepperIdle
    /\ UNCHANGED Btn

\* Inputs of the fades: one PWM frequency, no fade or a fade of 10 steps,
\* two of the library's colours and a dim one
FadePwmFrequencies == {2000}
FadeFadeTimes == {0, 20}
RGB_DIM == [R |-> 8, G |-> 10, B |-> 10]
FadeColors == {RGB_OFF, RGB_RED, RGB_DIM}

\* Call of Rgb_Init, once, for the fades
FadeInit ==
    /\ Rgb.FadeTime = -1
    /\ \E f \in FadePwmFrequencies : Rgb' = Rgb_Init(Rgb, Hw, f)
    /\ StepperIdle
    /\ UNCHANGED Btn

\* Call of Rgb_SetColor between two timer interrupts
FadeSetColor ==
    /\ Rgb.FadeTime >= 0 /\ ~Rgb.fault
    /\ \E c \in FadeColors, t \in FadeFadeTimes : Rgb' = Rgb_SetColor(Rgb, c, t)
    /\ StepperIdle
    /\ UNCHANGED Btn

\* The RGB driver with its timer interrupt
NextFade == FadeInit \/ FadeSetColor \/ RgbTimer

SpecFade == InitButton /\ [][NextFade]_vars

\* ------------------------------------------------------------------------
\* Both limit pins on one GPIO port: the masked interrupt status read for
\* either pin is that of the port, and both inputs may rise together
\* ------------------------------------------------------------------------

\* Both limit inputs rise before the handler runs; the handler runs once.
\* op.pending is the set of limit interrupts that run leaves pending
LimBothEdges ==
    /\ ~fault
    /\ ~Lim.Start /\ ~Lim.End
    /\ Lim' = [Start |-> TRUE, End |-> TRUE]
    /\ Becomes(IsrLimHandler(Machine, {"Start", "End"}, {"Start", "End"}))
    /\ ret' = FALSE
    /\ op' = [name |-> "LimBoth", v |-> 0, a |-> 0,
              pending |-> {"Start", "End"} \ IsrLimCleared({"Start", "End"}, {"Start", "End"})]
    /\ prev' = Snapshot
    /\ UNCHANGED <<LastEncoderValue, lastArg>>

NextSamePort ==
    \/ Next
    \/ LimBothEdges

SpecSamePort == Init /\ [][NextSamePort]_vars

\* ------------------------------------------------------------------------
\* Preemption: Stepper_Move and Stepper_Stop run statement by statement in the
\* foreground, and the ramp-timer and limit interrupt handlers (Tick,
\* LimStartEdge, LimEndEdge) run to completion between any two of the steps
\* below.  The private functions a statement calls run as one step.
\* ------------------------------------------------------------------------

\* Arguments of the preempted calls of Stepper_Move: full speed either way,
\* instantly or with a ramp
PreemptVelocities == {-8000, 10000}
PreemptAccelerations == {-2000, 50000}

\* The foreground takes a step: the machine becomes m, the call continues at next
Steps(m, next) ==
    /\ ~fault
    /\ Status' = m.St
    /\ Params' = m.Pa
    /\ DeltaVel' = m.Dv
    /\ Hw' = m.Hw
    /\ fault' = m.fault
    /\ flip' = m.flip
    /\ pc' = next
    /\ UNCHANGED <<Lim, LastEncoderValue, lastArg, Btn, Rgb>>

\* The call in progress goes on at statement l
At(l) == [pc EXCEPT !.at = l]

\* Stepper_Move is called: arguments saturated, TargetVel, CurrentAcc and
\* _DeltaVel written
MoveEnter ==
    \E v \in PreemptVelocities, a \in PreemptAccelerations :
        /\ pc.at = "idle"
        /\ Steps(MoveTargets(Machine, v, a),
                 [at |-> "M_if", v |-> v, a |-> a, from |-> "idle", lim0 |-> Lim,
                  prev |-> Snapshot])
        /\ UNCHANGED <<op, prev, ret>>

\* Stepper_Move: if ((!_Status.Enabled) && (VelocityAbs != 0)) _CalculateVel();
MoveCalculate ==
    \E ub \in DivZeroOutcomes :
        /\ pc.at = "M_if"
        /\ IF ~Status.Enabled /\ Status.TargetVel # 0
           THEN Steps(CalculateVel(Machine, ub), At("M_canmove"))
           ELSE Steps(Machine, At("M_timer"))
        /\ UNCHANGED <<op, prev, ret>>

\* Stepper_Move: if (_CanMove(_Status.Dir))
MoveCanMove ==
    /\ pc.at = "M_canmove"
    /\ Steps(Machine, IF CanMove(Lim, Status.Dir)
                      THEN At("M_enable")
                      ELSE [pc EXCEPT !.at = "S_enable", !.from = "M_timer"])
    /\ UNCHANGED <<op, prev, ret>>

\* Stepper_Move: _SetEnable(true);
MoveEnable ==
    /\ pc.at = "M_enable"
    /\ Steps(SetEnable(Machine, TRUE), At("M_start"))
    /\ UNCHANGED <<op, prev, ret>>

\* Stepper_Move: _StartPwm();
MoveStartPwm ==
    /\ pc.at = "M_start"
    /\ Steps(StartPwm(Machine), At("M_timer"))
    /\ UNCHANGED <<op, prev, ret>>

\* Stepper_Move: if (_Status.CurrentVel != _Status.TargetVel) TimerEnable(...);
MoveTimer ==
    /\ pc.at = "M_timer"
    /\ Steps(IF Status.CurrentVel # Status.TargetVel
             THEN [Machine EXCEPT !.Hw.TimerEnabled = TRUE]
             ELSE Machine, At("M_return"))
    /\ UNCHANGED <<op, prev, ret>>

\* Stepper_Move: return _Status.Enabled;
MoveReturn ==
    /\ pc.at = "M_return"
    /\ Steps(Machine, Idle)
    /\ ret' = Status.Enabled
    /\ op' = [name |-> "Move", v |-> pc.v, a |-> pc.a]
    /\ prev' = pc.prev

\* Stepper_Stop is called from the foreground
StopEnter ==
    /\ pc.at = "idle"
    /\ Steps(Machine, [at |-> "S_enable", v |-> 0, a |-> 0, from |-> "idle", lim0 |-> Lim,
                       prev |-> Snapshot])
    /\ UNCHANGED <<op, prev, ret>>

\* Stepper_Stop: _SetEnable(false);
StopEnable ==
    /\ pc.at = "S_enable"
    /\ Steps(SetEnable(Machine, FALSE), At("S_pwm"))
    /\ UNCHANGED <<op, prev, ret>>

\* Stepper_Stop: _StopPwm ();
StopStopPwm ==
    /\ pc.at = "S_pwm"
    /\ Steps(StopPwm(Machine), At("S_vel"))
    /\ UNCHANGED <<op, prev, ret>>

\* Stepper_Stop: _Status.CurrentVel = 0;
StopVel ==
    /\ pc.at = "S_vel"
    /\ Steps([Machine EXCEPT !.St.CurrentVel = 0], At("S_acc"))
    /\ UNCHANGED <<op, prev, ret>>

\* Stepper_Stop: _Status.CurrentAcc = 0; and the return, to Stepper_Move when
\* it made the call
StopAcc ==
    /\ pc.at = "S_acc"
    /\ Steps([Machine EXCEPT !.St.CurrentAcc = 0],
             IF pc.from = "idle" THEN Idle
             ELSE [pc EXCEPT !.at = pc.from, !.from = "idle"])
    /\ IF pc.from = "idle"
       THEN /\ ret' = FALSE
            /\ op' = [name |-> "Stop", v |-> 0, a |-> 0]
            /\ prev' = pc.prev
       ELSE UNCHANGED <<op, prev, ret>>

NextPreempt ==
    \/ MoveEnter
    \/ MoveCalculate
    \/ MoveCanMove
    \/ MoveEnable
    \/ MoveStartPwm
    \/ MoveTimer
    \/ MoveReturn
    \/ StopEnter
    \/ StopEnable
    \/ StopStopPwm
    \/ StopVel
    \/ StopAcc
    \/ Tick
    \/ LimStartEdge
    \/ LimEndEdge
    \/ LimRelease

SpecPreempt == InitButton /\ [][NextPreempt]_vars

\* ------------------------------------------------------------------------
\* Properties
\* ------------------------------------------------------------------------

\* The axis is commanded toward the limit input lim that is asserted
TowardAssertedLimit(st, lim) ==
    st.Enabled /\ ((~st.Dir /\ lim.Start) \/ (st.Dir /\ lim.End))

\* C1: in no reachable state is the axis Enabled with Direction pointing toward
\* a limit input that is currently asserted.
C1_NoMotionIntoLimit == ~TowardAssertedLimit(Status, Lim)

\* Distance left to the target velocity
Gap(st) == Aux_FastFabs(st.TargetVel - st.CurrentVel)

\* A ramp with a > 0 is under way: the axis is enabled, the acceleration of
\* the Move is still in force and the ramp timer runs
RampRunning(st, hw) == st.Enabled /\ (st.CurrentAcc > 0) /\ hw.TimerEnabled

\* C2: convergence.  While a ramp with a > 0 is under way and no Move, Stop
\* or limit edge intervenes, every tick that finds the target not yet reached
\* brings CurrentVelocity strictly closer to TargetVelocity and either reaches
\* it or leaves the ramp under way, so the target is reached after finitely
\* many ticks - also when the velocity has to pass through zero.
C2_Converges ==
    [][ (op'.name = "Tick" /\ ~fault' /\ RampRunning(Status, Hw) /\ Gap(Status) # 0)
        => /\ Gap(Status') < Gap(Status)
           /\ (Gap(Status') = 0 \/ RampRunning(Status', Hw')) ]_vars

\* x lies between a and b, ends included
Between(x, a, b) == (a <= x /\ x <= b) \/ (b <= x /\ x <= a)

\* The operation is a tick of a ramp under way that has not reached its target
RampTick == op'.name = "Tick" /\ ~fault' /\ RampRunning(Status, Hw) /\ Gap(Status) # 0

\* The operation is a Move with a > 0 that starts the axis from the disabled
\* state and is not refused
KickStart == op'.name = "Move" /\ op'.a > 0 /\ ~Status.Enabled /\ ret' /\ ~fault'

\* C3: monotonic ramp.  From the Move that starts a ramp with a > 0 (kick-start
\* seed included) and on every tick of it, CurrentVelocity stays between its
\* previous value and TargetVelocity: no overshoot, no move away from the target.
C3_MonotonicRamp ==
    [][ /\ RampTick => Between(Status'.CurrentVel, Status.CurrentVel, Status.TargetVel)
        /\ KickStart => Between(Status'.CurrentVel, 0, Status'.TargetVel) ]_vars

\* Change of CurrentVelocity made by the operation
Change == Aux_FastFabs(Status'.CurrentVel - Status.CurrentVel)

\* C4 as stated: every tick of a ramp with a > 0 changes CurrentVelocity by
\* at most DeltaVel; by exactly DeltaVel while the remaining gap is at least
\* DeltaVel, by the remaining gap on the final tick.
C4_StepAtMostDeltaVel ==
    [][ RampTick => /\ Change <= DeltaVel
                    /\ (Gap(Status) >= DeltaVel => Change = DeltaVel)
                    /\ (Gap(Status) < DeltaVel => Status'.CurrentVel = Status.TargetVel) ]_vars

\* C4, amended: every tick of a ramp with a > 0 changes CurrentVelocity by less
\* than DeltaVel + 1/Kv (the snap tolerance of _SetVel): by exactly DeltaVel when
\* the remaining gap is at least DeltaVel + 1/Kv, by the whole remaining gap when
\* it is below DeltaVel, and by DeltaVel or the whole remaining gap in between.
C4_StepWithinSnap ==
    [][ RampTick =>
        /\ Change * Params.Kv < DeltaVel * Params.Kv + VelScale
        /\ (Gap(Status) < DeltaVel => Status'.CurrentVel = Status.TargetVel)
        /\ ((Gap(Status) - DeltaVel) * Params.Kv >= VelScale => Change = DeltaVel)
        /\ (Gap(Status) >= DeltaVel
            => (Change = DeltaVel \/ Status'.CurrentVel = Status.TargetVel)) ]_vars

\* C4 witness: a tick of a ramp has just moved CurrentVelocity by more than
\* DeltaVel, snapping onto the target
C4_Witness ==
    /\ op.name = "Tick" /\ prev.Enabled /\ Status.Enabled /\ Status.CurrentAcc > 0
    /\ Aux_FastFabs(Status.CurrentVel - prev.CurrentVel) > DeltaVel
    /\ Status.CurrentVel = Status.TargetVel

\* C5: Direction changes only at a velocity-zero or seed-velocity boundary:
\* whenever an operation changes Direction, CurrentVelocity just before is at
\* most VelMin in magnitude and no pulse train of the old direction reaches the
\* motor when the direction pin flips.
C5_DirectionSafety ==
    [][ (Status'.Dir # Status.Dir)
        => (Aux_FastFabs(Status.CurrentVel) <= Params.VelMin /\ ~flip') ]_vars

\* The operation is a Move with FinalVelocity # 0 issued while the axis is
\* disabled, and it returned
MoveFromStop == op'.name = "Move" /\ op'.v # 0 /\ ~Status.Enabled /\ ~fault'

\* C6: limit refusal.  With the axis disabled, a Move toward an asserted limit
\* (v < 0 with the start-limit, v > 0 with the end-limit) returns false, leaves
\* Enabled false and does not start the pulse output; a Move away from the only
\* asserted limit returns true and enables the axis.
C6_LimitRefusal ==
    [][ MoveFromStop =>
        /\ ((op'.v < 0 /\ Lim.Start) \/ (op'.v > 0 /\ Lim.End))
           => (~ret' /\ ~Status'.Enabled /\ ~Hw'.GenEnabled /\ ~Hw'.OutState)
        /\ ((op'.v > 0 /\ Lim.Start /\ ~Lim.End) \/ (op'.v < 0 /\ Lim.End /\ ~Lim.Start))
           => (ret' /\ Status'.Enabled) ]_vars

\* C6 witness: a Move with v < 0 was issued on the disabled axis with the
\* start-limit asserted and returned false
C6_Witness ==
    op.name = "Move" /\ op.v < 0 /\ ~prev.Enabled /\ Lim.Start /\ ~ret /\ ~fault

\* The axis is stopped: disabled, no velocity, no acceleration, no frequency
Stopped(st) ==
    ~st.Enabled /\ st.CurrentVel = 0 /\ st.CurrentAcc = 0 /\ st.PwmFrequency = 0

\* C7: limit cut-off.  Handling an end-limit rising edge while the axis is
\* Enabled, Direction forward, CurrentVelocity > 0 leaves Enabled false and
\* CurrentVelocity, CurrentAcceleration and PulseFrequency 0; the same for a
\* start-limit edge while moving backward.
C7_LimitCutoff ==
    /\ (op.name = "LimEnd" /\ prev.Enabled /\ prev.Dir /\ prev.CurrentVel > 0)
       => Stopped(Status)
    /\ (op.name = "LimStart" /\ prev.Enabled /\ ~prev.Dir /\ prev.CurrentVel < 0)
       => Stopped(Status)

\* C7 witness: an end-limit edge has been handled while the axis was moving
\* forward
C7_Witness ==
    op.name = "LimEnd" /\ prev.Enabled /\ prev.Dir /\ prev.CurrentVel > 0

\* C8: after Stop the axis is disabled with the enable line inactive, the pulse
\* output is stopped with PulseFrequency 0, and CurrentVelocity and
\* CurrentAcceleration are 0.
C8_StopPostcondition ==
    (op.name = "Stop")
    => (Stopped(Status) /\ Hw.EnPin /\ ~Hw.GenEnabled /\ ~Hw.OutState)

\* C8 witness: Stop has been called while the axis was enabled and moving
C8_Witness == op.name = "Stop" /\ prev.Enabled /\ prev.CurrentVel # 0

\* C9 as stated: Stop resets the status to the all-zero defaults, TargetVelocity
\* and Direction included.
C9_StopResetsAll == (op.name = "Stop") => (Status = stepper_status_t_default)

\* C9, amended: Stop leaves Enabled false and CurrentVelocity, CurrentAcceleration
\* and PulseFrequency 0, and leaves TargetVelocity and Direction as they were.
C9_StopKeepsTarget ==
    [][ (op'.name = "Stop")
        => /\ Stopped(Status')
           /\ Status'.TargetVel = Status.TargetVel
           /\ Status'.Dir = Status.Dir ]_vars

\* C9 witness: Stop has been called on a moving axis and TargetVelocity and
\* Direction are not the defaults
C9_Witness ==
    op.name = "Stop" /\ prev.Enabled /\ Status.TargetVel # 0 /\ Status.Dir

\* C10: a Stop that directly follows a Stop changes nothing: status,
\* parameters and outputs are the same after the second call as after the first.
C10_StopIdempotent ==
    [][ (op.name = "Stop" /\ op'.name = "Stop")
        => /\ Status' = Status
           /\ Params' = Params
           /\ DeltaVel' = DeltaVel
           /\ Hw' = Hw ]_vars

\* C10 witness: Stop has been called twice in succession, the first time on a
\* moving axis
C10_Witness == op.name = "Stop" /\ op.v = 1 /\ ~Status.Enabled /\ Status.TargetVel # 0

\* A move at velocity v heads for a limit input that is asserted
Blocked(v, lim) == (v < 0 /\ lim.Start) \/ (v > 0 /\ lim.End)

\* The operation is a Move(v, a) with a < 0 and |v| <= VelMax
InstantMove(o, pa) == o.name = "Move" /\ o.a < 0 /\ Aux_FastFabs(o.v) <= pa.VelMax

\* C11: instant mode.  Move(v, -1) with |v| <= VelMax results in
\* CurrentVelocity = v: synchronously when the axis is disabled and the move is
\* not refused by a limit, after exactly one ramp tick when the axis is already
\* Enabled (the ramp timer runs unless CurrentVelocity is v already), whatever
\* the previous velocity was.
C11_InstantMode ==
    [][ /\ (InstantMove(op', Params) /\ ~Status.Enabled
            /\ ~Blocked(op'.v, Lim))
           => Status'.CurrentVel = op'.v
        /\ (InstantMove(op', Params) /\ Status.Enabled)
           => (Status'.CurrentVel = op'.v \/ Hw'.TimerEnabled)
        /\ (InstantMove(op, Params) /\ prev.Enabled /\ op'.name = "Tick")
           => Status'.CurrentVel = op.v ]_vars

\* C11 witness: a tick that follows an instant Move on the running axis has
\* brought CurrentVelocity from a nonzero value of the other sign to the target
C11_Witness ==
    /\ op.name = "Tick" /\ prev.Enabled /\ Status.CurrentAcc < 0 /\ ~fault
    /\ prev.CurrentVel < 0 /\ Status.CurrentVel > 0
    /\ Status.CurrentVel = Status.TargetVel

\* The operation is a Move(v, a) with a <= 0
SentinelMove(o) == o.name = "Move" /\ o.a <= 0

\* C12: every acceleration a <= 0 passed to Move (a = 0 included) is stored
\* unmodified as CurrentAcceleration and acts as the instant-change sentinel:
\* the next ramp computation (inside the Move on the disabled axis, the next
\* tick on the enabled axis) sets CurrentVelocity directly to TargetVelocity.
C12_NonPositiveIsInstant ==
    [][ /\ (SentinelMove(op') /\ ~fault' /\ ~Status.Enabled /\ op'.v # 0
            /\ ~Blocked(op'.v, Lim))
           => (Status'.CurrentAcc = op'.a /\ Status'.CurrentVel = Status'.TargetVel)
        /\ (SentinelMove(op') /\ Status.Enabled)
           => (Status'.CurrentAcc = op'.a
               /\ (Status'.CurrentVel = Status'.TargetVel \/ Hw'.TimerEnabled))
        /\ (SentinelMove(op) /\ prev.Enabled /\ op'.name = "Tick" /\ ~fault')
           => Status'.CurrentVel = Status.TargetVel ]_vars

\* v limited to the range [-max, max]
Clamp(v, max) == IF v > max THEN max ELSE IF v < -max THEN -max ELSE v

\* The limits of the configuration are respected by the status
WithinLimits(st, pa) ==
    Aux_FastFabs(st.TargetVel) <= pa.VelMax /\ st.CurrentAcc <= pa.AccMax

\* C13: clamping.  After Move(v, a) TargetVelocity = sign(v) * min(|v|, VelMax);
\* for a > AccMax the acceleration used is AccMax (CurrentAcceleration = AccMax
\* and DeltaVel = AccMax / VelUpdateFrequency when the move is not refused);
\* |TargetVelocity| <= VelMax and CurrentAcceleration <= AccMax in every
\* reachable state.
C13_Clamping ==
    [][ /\ WithinLimits(Status', Params')
        /\ (op'.name = "Move" /\ ~fault')
           => /\ Status'.TargetVel = Clamp(op'.v, Params.VelMax)
              /\ (op'.a > Params.AccMax /\ ~(~Status.Enabled /\ Blocked(op'.v, Lim)))
                 => /\ Status'.CurrentAcc = Params.AccMax
                    /\ DeltaVel' * Params.VelUpdateFrequency = Params.AccMax ]_vars

\* The operation is the tick in which CurrentVelocity becomes equal to
\* TargetVelocity
ConvergenceTick ==
    /\ op'.name = "Tick" /\ ~fault'
    /\ Status.CurrentVel # Status.TargetVel
    /\ Status'.CurrentVel = Status'.TargetVel

\* C14 as stated: the ramp timer is disabled in the same tick in which
\* CurrentVelocity becomes equal to TargetVelocity, so no tick fires after it.
C14_IdleAtConvergence == [][ ConvergenceTick => ~Hw'.TimerEnabled ]_vars

\* C14, amended: the tick in which CurrentVelocity becomes equal to
\* TargetVelocity leaves the ramp timer running; the tick that finds them equal
\* disables the timer and changes nothing else, so exactly one tick fires after
\* the tick that reached the target.
C14_IdleOneTickLater ==
    [][ /\ ConvergenceTick => Hw'.TimerEnabled
        /\ (op'.name = "Tick" /\ Status.CurrentVel = Status.TargetVel)
           => /\ Hw' = [Hw EXCEPT !.TimerEnabled = FALSE]
              /\ Status' = Status /\ Params' = Params /\ DeltaVel' = DeltaVel
              /\ ~fault' ]_vars

\* C14 witness: a tick has found the running axis at its target and disabled
\* the ramp timer
C14_Witness ==
    /\ op.name = "Tick" /\ ~Hw.TimerEnabled /\ Status.Enabled
    /\ prev.CurrentVel = Status.TargetVel /\ Status.CurrentVel = Status.TargetVel
    /\ Status.TargetVel # 0

\* The frequency a tick on the enabled axis requests from _SetPwmFreq
RequestedFreq == ToFreq(Params.Kv, NewVelOf(Machine))

\* The operation is a tick that calls _SetPwmFreq on the enabled axis with a
\* frequency below the dead zone of the clock it selects
DeadZoneCall ==
    /\ op'.name = "Tick" /\ Status.Enabled
    /\ Status.CurrentVel # Status.TargetVel /\ NewVelOf(Machine) # 0
    /\ RequestedFreq < Params'.PwmDz

\* C15: dead-zone policy.  When _SetPwmFreq(f) is called with f < PwmDz while
\* the axis is Enabled, the enable line is driven inactive and the period
\* register is not programmed, but the Enabled flag stays true and
\* GetPwmFrequency() reports the requested value f.
C15_DeadZone ==
    [][ DeadZoneCall
        => /\ Hw'.EnPin
           /\ Hw'.Load = Hw.Load /\ Hw'.Width = Hw.Width
           /\ Status'.Enabled
           /\ Status'.PwmFrequency = RequestedFreq
           /\ ~fault' ]_vars

\* C15 witness: a tick has left the enabled axis inside the dead zone at a
\* nonzero requested frequency, the enable line inactive
C15_Witness ==
    /\ op.name = "Tick" /\ prev.Enabled /\ Status.Enabled /\ Hw.EnPin
    /\ Status.PwmFrequency > 0 /\ Status.PwmFrequency < Params.PwmDz
    /\ Status.CurrentVel # prev.CurrentVel

\* C16: stall flag.  CheckForStall(e) returns true if and only if the axis is
\* Enabled, CurrentVelocity # 0 and e equals the encoder value passed to the
\* immediately preceding CheckForStall call, whatever the axis state was during
\* that call; it returns false whenever Enabled is false.
C16_StallFlag ==
    [][ (op'.name = "CheckForStall" /\ lastArg # <<>>)
        => /\ ret' = (Status.Enabled /\ Status.CurrentVel # 0 /\ lastArg = <<op'.v>>)
           /\ (~Status.Enabled => ~ret') ]_vars

\* C17: the very first CheckForStall call after start-up returns false for
\* every encoder value, also when the axis is Enabled with CurrentVelocity # 0.
C17_FirstCallFalse ==
    [][ (op'.name = "CheckForStall" /\ lastArg = <<>>) => ~ret' ]_vars

\* The operation is a Move that returned
MoveReturned == op'.name = "Move" /\ ~fault'

\* C18 as stated: Move returns the Enabled status after the call, and returns
\* false exactly when the requested move was refused because the limit input in
\* the requested direction is asserted; every Move not blocked by a limit
\* returns true.
C18_FalseOnlyWhenBlocked ==
    [][ MoveReturned
        => /\ ret' = Status'.Enabled
           /\ ~ret' <=> (~Status.Enabled /\ Blocked(op'.v, Lim)) ]_vars

\* C18, amended: Move returns the Enabled status after the call; it returns
\* false exactly when the axis was disabled before the call and either the
\* limit input in the requested direction is asserted or FinalVelocity is 0.
C18_ReturnsEnabled ==
    [][ MoveReturned
        => /\ ret' = Status'.Enabled
           /\ ~ret' <=> (~Status.Enabled /\ (Blocked(op'.v, Lim) \/ op'.v = 0)) ]_vars

\* C18 witness: Move(0, a) was called on the disabled axis with no limit
\* input asserted and returned false
C18_Witness ==
    /\ op.name = "Move" /\ op.v = 0 /\ ~prev.Enabled /\ ~fault
    /\ ~Lim.Start /\ ~Lim.End /\ ~ret

\* C19: in every reachable state (after each completed Move, Stop, tick or
\* limit handler) a nonzero CurrentVelocity has the sign of Direction:
\* CurrentVelocity > 0 implies Direction forward, CurrentVelocity < 0 implies
\* Direction backward.
C19_SignMatchesDirection ==
    /\ (Status.CurrentVel > 0 => Status.Dir)
    /\ (Status.CurrentVel < 0 => ~Status.Dir)

\* C20: after Init and after every operation the derived parameters agree
\* with the selected PWM clock divider, for every configuration:
\* PwmClock = BaseClock >> ClockShiftForDivider, PwmDz = (PwmClock >> 16) + 1
\* and VelMin = PwmDz / Kv.
C20_DerivedParameters ==
    /\ Params.PwmClock = ShiftRight(SysClock, Hw.PwmDiv)
    /\ Params.PwmDz = ShiftRight(Params.PwmClock, CounterBits) + 1
    /\ Params.VelMin * Params.Kv = Params.PwmDz * VelScale

\* Units from a release to the report of the clicks, beyond Window: the release
\* is seen up to DeadTime + Interval late, and a scan comes every Interval
ReportLatency == ButtonParams.DeadTime + 3 * ButtonParams.Interval

\* The presses so far form a sequence of short clicks: each was held longer
\* than DeadTime, the one in progress is shorter than LongClickTimeout so far
ShortSequence(b) ==
    b.clean /\ (b.Pin = 0 => b.edge + 1 < b.Params.LongClickTimeout)

\* C21: short clicks.  N consecutive short press/release cycles (each press
\* held longer than DeadTime and released before LongClickTimeout, each
\* following press starting within Window of the previous release) produce
\* exactly one BUTTON_SHORT_CLICK event with Counter = N, reported once Window
\* has elapsed after the last release; every other scan returns false.
C21_ShortClicks ==
    [][ /\ (Btn'.last = "scan" /\ ShortSequence(Btn) /\ Btn'.EventFlag)
           => /\ Btn'.EventData = [EventCode |-> "BUTTON_SHORT_CLICK", Counter |-> Btn.n]
              /\ Btn.Pin = 1 /\ Btn.n >= 1
              /\ Btn'.edge > Btn.Params.Window
        /\ (Btn'.clean /\ Btn'.n >= 1 /\ Btn'.Pin = 1 /\ Btn'.Scan.State # "BUTTON_INIT")
           => Btn'.edge < Btn.Params.Window + ReportLatency ]_vars

\* C21, amended: the same for presses that are each held for more than
\* DeadTime + 2 * Interval and each begin more than DeadTime + 2 * Interval
\* (and at most Window) after the previous release.
C21_SpacedShortClicks ==
    [][ /\ (Btn'.last = "scan" /\ ShortSequence(Btn) /\ Btn.spaced /\ Btn'.EventFlag)
           => /\ Btn'.EventData = [EventCode |-> "BUTTON_SHORT_CLICK", Counter |-> Btn.n]
              /\ Btn.Pin = 1 /\ Btn.n >= 1
              /\ Btn'.edge > Btn.Params.Window
        /\ (Btn'.clean /\ Btn'.spaced /\ Btn'.n >= 1 /\ Btn'.Pin = 1
            /\ Btn'.Scan.State # "BUTTON_INIT")
           => Btn'.edge < Btn.Params.Window + ReportLatency ]_vars

\* C21 witness: a scan has reported BUTTON_SHORT_CLICK with Counter = 2 after
\* two short presses, well held and well spaced
C21_Witness ==
    /\ Btn.last = "scan" /\ Btn.EventFlag
    /\ Btn.EventData = [EventCode |-> "BUTTON_SHORT_CLICK", Counter |-> 2]
    /\ Btn.n = 2 /\ Btn.clean /\ Btn.spaced

\* Units from LongClickTimeout to the report of a long-click tick: the press is
\* seen up to an Interval late, and a scan comes every Interval
TickLatency == 2 * ButtonParams.Interval

\* What a scan does about long clicks, for a button b scanned into b2:
\* any event reported while the button is pressed is a tick, the next in
\* number, more than LongClickTimeout after the press or the tick before it,
\* and a tick is never more than TickLatency overdue; the first scan after the
\* release of a hold that had ticks reports BUTTON_LONG_CLICK with the number
\* of ticks and leaves the state machine in BUTTON_INIT with all counters zero
LongClickScan(b, b2) ==
    /\ (b.Pin = 0 /\ b2.EventFlag)
       => /\ b2.EventData = [EventCode |-> "BUTTON_LONG_CLICK_TICK", Counter |-> b.ticks + 1]
          /\ b.since + 1 > b.Params.LongClickTimeout
    /\ (b.Pin = 0) => (b2.since <= b.Params.LongClickTimeout + TickLatency)
    /\ (b.Pin = 1 /\ b.ticks >= 1 /\ b.edge < b.Params.Interval)
       => /\ b2.EventFlag
          /\ b2.EventData = [EventCode |-> "BUTTON_LONG_CLICK", Counter |-> b.ticks]
          /\ b2.Scan = button_scan_t_default

\* C22 as stated: long clicks.  While the button stays pressed a
\* BUTTON_LONG_CLICK_TICK is reported each time more than LongClickTimeout has
\* elapsed since the press or the previous tick, with Counter = 1, 2, 3, ...;
\* at the release exactly one BUTTON_LONG_CLICK is reported whose Counter is the
\* number of ticks of that hold, the state machine returns to BUTTON_INIT with
\* all counters zero, and no BUTTON_SHORT_CLICK is reported for that press.
C22_LongClicks ==
    [][ (Btn'.last = "scan") => LongClickScan(Btn, Btn') ]_vars

\* C22, amended: the same for a press that finds the state machine in
\* BUTTON_INIT, or that begins more than DeadTime + 2 * Interval after the
\* previous release in a sequence whose earlier presses and gaps were all
\* longer than DeadTime + 2 * Interval.
C22_SpacedLongClicks ==
    [][ (Btn'.last = "scan" /\ Btn.spaced) => LongClickScan(Btn, Btn') ]_vars

\* C22 witness: the scan after the release of a hold with two ticks has
\* reported BUTTON_LONG_CLICK with Counter = 2
C22_Witness ==
    /\ Btn.last = "scan" /\ Btn.EventFlag /\ Btn.Pin = 1 /\ Btn.spaced /\ Btn.ticks = 2
    /\ Btn.EventData = [EventCode |-> "BUTTON_LONG_CLICK", Counter |-> 2]

\* Fade steps of FadeTime milliseconds with the fade service at PwmFrequency Hz
\* (capped at one second)
FadeStepsOf(FadeTime, PwmFrequency) ==
    LET steps == (FadeTime * PwmFrequency) \div 1000
    IN  IF steps > PwmFrequency THEN PwmFrequency ELSE steps

\* C23: after SetColor(Color, FadeTime) the number of fade steps is
\* FadeTime * PwmFrequency / 1000, capped at PwmFrequency, for every
\* FadeTime > 0 and every PwmFrequency, and 0 for FadeTime = 0.
C23_FadeSteps ==
    (Rgb.FadeTime >= 0) => (Rgb.FadeSteps = FadeStepsOf(Rgb.FadeTime, Rgb.PwmFrequency))

\* C24: dead zone.  In every state with the enable line electrically asserted
\* and the pulse generator running, PulseFrequency >= PwmDz, the state right
\* after a Move issued while the axis was disabled included.
C24_NoPulsesInDeadZone ==
    (PulsesOut(Hw) /\ ~fault) => (Status.PwmFrequency >= Params.PwmDz)

\* The axis is as Stop or a limit cut-off leaves it and no Move has been
\* issued since: disabled, CurrentVelocity and PulseFrequency 0, the enable
\* line inactive, the pulse generator and its output off
Halted ==
    /\ op.name # "Move"
    /\ ~Status.Enabled /\ Status.CurrentVel = 0 /\ Status.PwmFrequency = 0
    /\ Hw.EnPin /\ ~Hw.GenEnabled /\ ~Hw.OutState

\* C25: Stop (or a limit cut-off) cancels the ramp.  On the axis that Stop
\* has halted, no ramp tick, and no other step that is not a Move, re-enables
\* the axis or produces a nonzero CurrentVelocity or PulseFrequency: the axis
\* stays halted until the next Move.
C25_StopCancelsRamp ==
    [][ /\ (op'.name = "Stop") => Halted'
        /\ (op'.name \in {"LimStart", "LimEnd"} /\ Status.Enabled /\ ~Status'.Enabled)
           => Halted'
        /\ (Halted /\ op'.name # "Move") => (Halted' /\ ~fault') ]_vars

\* C25 witness: a ramp tick has run on the axis stopped in mid-ramp (the
\* cancelled target is still there, the ramp timer still runs)
C25_Witness ==
    /\ op.name = "Tick" /\ ~prev.Enabled /\ prev.CurrentVel = 0
    /\ Status.TargetVel # 0 /\ Hw.TimerEnabled /\ Stopped(Status)

\* C26: if no further Move is issued the ramp timer is always eventually
\* disabled (after convergence, after a Stop during a ramp, after a limit
\* cut-off, after a refused Move).  In finite-run form: no ramp tick leaves
\* the timer running and the controller exactly as it found it, since such a
\* tick repeats for ever.
C26_TimerEventuallyDisabled ==
    [][ (op'.name = "Tick" /\ Hw'.TimerEnabled)
        => (<<Status, Params, DeltaVel, Hw, fault>>' # <<Status, Params, DeltaVel, Hw, fault>>) ]_vars

\* C29: _SetPwmFreq never divides by zero: whenever it computes the period,
\* PwmFrequency >= 1, the call made by Init included (fault records a division
\* by zero that trapped).
C29_NoDivisionByZero == ~fault

\* The velocity a kick-start seeds for target t with the parameters pa:
\* VelMin with the sign of t, or t itself when that is within the snap window
SeedOf(pa, t) ==
    LET seed == IF t < 0 THEN -pa.VelMin ELSE pa.VelMin
    IN  IF Aux_FastFabs(seed - t) * pa.Kv < VelScale THEN t ELSE seed

\* C30: kick-start.  A permitted Move(v, a > 0) on the disabled axis seeds
\* CurrentVelocity at +-VelMin with the sign of TargetVelocity (or at
\* TargetVelocity when within the snap window), VelMin being the value valid
\* for the PWM clock divider that call selects, and leaves
\* PulseFrequency >= PwmDz.
C30_KickStartSeed ==
    [][ KickStart
        => /\ Status'.CurrentVel = SeedOf(Params', Status'.TargetVel)
           /\ Status'.PwmFrequency >= Params'.PwmDz ]_vars

\* Stepper_Move is returning with the axis Enabled and heading for a limit
\* input that is asserted now and was not when the call began
EnabledTowardNewLimit ==
    /\ pc.at = "M_return" /\ Status.Enabled
    /\ \/ (~Status.Dir /\ Lim.Start /\ ~pc.lim0.Start)
       \/ (Status.Dir /\ Lim.End /\ ~pc.lim0.End)

\* C27: with the limit handler preempting Move between any two statements, a
\* limit input that becomes asserted while Move is executing never leaves the
\* axis Enabled and heading toward that limit once Move has returned, the
\* rising edge between the _CanMove check and _SetEnable(true) included.
C27_NoStartIntoNewLimit ==
    [][ (pc.at = "M_return" /\ pc'.at = "idle") => ~EnabledTowardNewLimit ]_vars

\* C28: with the ramp-tick and limit handlers preempting Move and Stop between
\* any two statements, whenever no foreground operation is in progress and
\* the axis is not Enabled, CurrentVelocity = 0, PulseFrequency = 0 and the
\* pulse generator is not running.  Stated for the states in which Move or
\* Stop has just returned.
C28_DisabledIsStopped ==
    [][ (pc.at # "idle" /\ pc'.at = "idle" /\ ~Status'.Enabled /\ ~fault')
        => (Status'.CurrentVel = 0 /\ Status'.PwmFrequency = 0 /\ ~Hw'.GenEnabled) ]_vars

\* The machine as _CalculateVel finds it in the step being taken: for a
\* Move, after the new targets are stored
Caller == IF op'.name = "Move" THEN MoveTargets(Machine, op'.v, op'.a) ELSE Machine

\* The step being taken calls _SetPwmFreq: a ramp tick away from the target, or
\* a Move that starts the disabled axis, with a nonzero new velocity
CallsSetPwmFreq ==
    /\ \/ op'.name = "Tick"
       \/ op'.name = "Move" /\ ~Status.Enabled /\ Caller.St.TargetVel # 0
    /\ Caller.St.CurrentVel # Caller.St.TargetVel
    /\ NewVelOf(Caller) # 0

\* The frequency requested by that call
CallFreq == ToFreq(Params.Kv, NewVelOf(Caller))

\* The call executes SysCtlPWMClockSet: one of the two clock branches is taken
ClockWritten ==
    \/ (CallFreq > FastThreshold /\ Params.PwmClock # SysClock)
    \/ (CallFreq < SlowThreshold /\ Params.PwmClock = SysClock)

C32_PeriodFitsCounter ==
    [][ (Hw'.Load # Hw.Load /\ ~fault')
        => (Params'.PwmPeriod >= 0 /\ Params'.PwmPeriod < 2 ^ CounterBits) ]_vars

\* C33: when the start-limit and end-limit inputs, on one GPIO port, both
\* have a rising-edge interrupt pending, a single run of the limit handler
\* stops the axis if it is Enabled (it is then moving toward one of the two
\* limits) and clears both pending interrupts.
C33_BothLimitsPending ==
    [][ (op'.name = "LimBoth")
        => /\ Status.Enabled => ~Status'.Enabled
           /\ op'.pending = {} ]_vars

\* The limit edge handled by the step being taken is for the limit the axis
\* is moving away from, or comes while the axis is disabled
HarmlessEdge ==
    \/ op'.name = "LimStart" /\ (Status.Dir \/ ~Status.Enabled)
    \/ op'.name = "LimEnd" /\ (~Status.Dir \/ ~Status.Enabled)

\* C34: the limit check is direction-aware.  A start-limit edge while
\* Direction is forward, an end-limit edge while Direction is backward, and
\* any limit edge while the axis is disabled, leave the motion state, the
\* parameters and the outputs completely unchanged.
C34_DirectionAware ==
    [][ HarmlessEdge
        => /\ Status' = Status
           /\ Params' = Params
           /\ DeltaVel' = DeltaVel
           /\ Hw' = Hw
           /\ ~fault' ]_vars

\* C34 witness: the start-limit input has risen while the axis was Enabled
\* and moving forward, and the axis is still moving
C34_Witness ==
    /\ op.name = "LimStart" /\ prev.Enabled /\ prev.Dir /\ prev.CurrentVel > 0
    /\ Status.Enabled /\ Status.CurrentVel > 0 /\ Lim.Start

\* C35: CheckForStall(e) always records e as LastEncoderValue, regardless of
\* its outcome and of whether the axis is Enabled at the time of the call.
C35_SampleAlwaysRecorded ==
    (op.name = "CheckForStall") => (LastEncoderValue = op.v)

\* The step being taken is a ramp tick of a ramp to zero: the axis is Enabled
\* and moving, TargetVelocity is 0 and the acceleration is positive
RampToZeroTick ==
    /\ op'.name = "Tick" /\ Status.Enabled /\ Status.CurrentAcc > 0
    /\ Status.TargetVel = 0 /\ Status.CurrentVel # 0

\* C36: ramp to zero.  After Move(0, a) with a > 0 on the moving axis, each
\* tick brings CurrentVelocity DeltaVel closer to 0 (or to 0 when it is closer
\* than DeltaVel) without changing Direction; the tick that reaches 0 leaves
\* the axis stopped (Enabled false, PulseFrequency 0,
\* CurrentVelocity = TargetVelocity), and the tick after it disables the ramp
\* timer.
C36_RampToZero ==
    [][ /\ RampToZeroTick
           => /\ Aux_FastFabs(Status'.CurrentVel)
                    = (IF Aux_FastFabs(Status.CurrentVel) <= DeltaVel THEN 0
                       ELSE Aux_FastFabs(Status.CurrentVel) - DeltaVel)
              /\ SignBit(Status'.CurrentVel) = SignBit(Status.CurrentVel)
                    \/ Status'.CurrentVel = 0
              /\ Status'.Dir = Status.Dir /\ Hw'.DirPin = Hw.DirPin
              /\ (Status'.CurrentVel = 0)
                    => (Stopped(Status') /\ Status'.CurrentVel = Status'.TargetVel)
              /\ ~fault'
        /\ (op'.name = "Tick" /\ ~Status.Enabled /\ Status.TargetVel = 0 /\ Status.CurrentVel = 0)
           => ~Hw'.TimerEnabled ]_vars

\* The call returns at the dead-zone exit: the requested frequency is below
\* PwmDz, as the clock selection of the call leaves it, on the Enabled axis
DeadZoneExit == CallFreq < Params'.PwmDz /\ Caller.St.Enabled

\* C37: whenever _SetPwmFreq(f) does not take the dead-zone exit,
\* PwmPeriod = PwmClock / f - 1; the period register and the pulse-width
\* register (half the period, 50 % duty) are written when that period differs
\* from the value held in the period register, and only then.
C37_PeriodAndDuty ==
    [][ (CallsSetPwmFreq /\ ~DeadZoneExit)
        => /\ CallFreq # 0 /\ ~fault'
           /\ Params'.PwmPeriod = (Params'.PwmClock \div CallFreq) - 1
           /\ IF Params'.PwmPeriod # PWMGenPeriodGet(Hw)
              THEN /\ PWMGenPeriodGet(Hw') = ((Params'.PwmPeriod - 1) % (2 ^ CounterBits)) + 1
                   /\ Hw'.Width = ShiftRight(Params'.PwmPeriod, 1)
              ELSE Hw'.Load = Hw.Load /\ Hw'.Width = Hw.Width ]_vars

\* The step being taken is a timer interrupt that takes the fade branch of
\* _FadeService (Rgb_SetColor leaves StepCounter 0, Rgb_Init too)
FadeStep ==
    /\ Rgb.TimerEnabled /\ Rgb.FadeSteps # 0
    /\ ~ColorsAreEqual(Rgb.CurrentColor, Rgb.NewColor)
    /\ Rgb'.StepCounter > 0

\* The component goes from cur to nxt toward target: it stays, takes one unit
\* step toward the target, or lands on the target
TowardTarget(cur, nxt, target) ==
    \/ nxt = cur
    \/ nxt = target
    \/ cur < target /\ nxt = cur + 1
    \/ cur > target /\ nxt = cur - 1

\* C38: during a fade every component of CurrentColor moves monotonically
\* toward its target in unit steps, never past the target, never away from it
\* and never around the ends of 0..255.
C38_FadeMonotonic ==
    [][ FadeStep
        => /\ TowardTarget(Rgb.CurrentColor.R, Rgb'.CurrentColor.R, Rgb.NewColor.R)
           /\ TowardTarget(Rgb.CurrentColor.G, Rgb'.CurrentColor.G, Rgb.NewColor.G)
           /\ TowardTarget(Rgb.CurrentColor.B, Rgb'.CurrentColor.B, Rgb.NewColor.B) ]_vars

\* C39: every fade step of the fade service divides by step skips >= 1:
\* no remainder is computed with a zero divisor, also when a component starts
\* at its target and when Rgb_SetColor retargets a fade in progress.
C39_NoZeroStepSkip ==
    [][ FadeStep
        => /\ Rgb'.StepSkipR >= 1 /\ Rgb'.StepSkipG >= 1 /\ Rgb'.StepSkipB >= 1
           /\ ~Rgb'.fault ]_vars

\* The button is released and every press of the present sequence was a
\* bounce: it lasted no longer than DeadTime
OnlyBounces == Btn.Pin = 1 /\ Btn.n >= 1 /\ Btn.bounce

\* C40: a press that lasts no longer than DeadTime is rejected: a sequence
\* made of such presses only reports no event and counts no click.
C40_BounceRejected ==
    OnlyBounces => (~Btn.EventFlag /\ Btn.Scan.ShortCounter = 0)

====
